---- MODULE Spec2Model ----
(***************************************************************************)
(* Products microservice: the Product table, the Prisma repository         *)
(* adapter, the six CQRS handlers and the NATS controller with its global  *)
(* ValidationPipe.  Every request is an independent asynchronous task that *)
(* suspends only at storage calls, so one step of the model is one storage *)
(* call together with the synchronous code around it.                      *)
(***************************************************************************)
EXTENDS Integers, Sequences, FiniteSets, Bags, TLC

(* ------------------------------ bounds --------------------------------- *)
\* number of distinct UUIDs randomUUID() can return in the model
MaxId == 2
\* largest price a payload carries (the smallest is -1)
MaxPrice == 1
\* number of handlers that can be suspended at a storage call at the same time
MaxInFlight == 2
\* longest id array of a validate_products payload
MaxBatch == 2
\* largest page / limit a find_all_products payload carries (the smallest is 0)
MaxPage == 2
MaxLimit == 2

(* ------------------------- program constants --------------------------- *)
NOT_FOUND == 404
BAD_REQUEST == 400
INTERNAL_SERVER_ERROR == 500
MinPrice == 0
MinPage == 1
DefaultPage == 1
DefaultLimit == 10

Ids == 1..MaxId
Names == {"a", " "}
Prices == (0 - 1)..MaxPrice
Pages == 0..MaxPage
Limits == 0..MaxLimit

\* an optional payload field: {} when the field is undefined, {v} when set
Opt(S) == {{}} \cup {{x} : x \in S}
Val(o) == CHOOSE x \in o : TRUE

VARIABLES
  table,   \* the Product table, rows in rowid (insertion) order
  pending, \* bag of the handlers suspended between their two storage calls
  reply,   \* the response produced in the current event-loop turn, if any
  delOk    \* per id: how many delete_product requests returned a product (capped)

vars == <<table, pending, reply, delOk>>

(* --------------------------- the Product table ------------------------- *)
Row(id, name, price, available) ==
  [id |-> id, name |-> name, price |-> price, available |-> available]

\* where: { id }
WhereId(row, id) == row.id = id
\* the lookup filter without the availability condition
WhereIdAnyAvailability(row, id) == row.id = id
\* where: { id, available: true }
WhereIdAvailable(row, id) == row.id = id /\ row.available
\* the listing filter without the availability condition
WhereAnyAvailability(row) == TRUE

\* where: { available: true }
WhereAvailable(row) == row.available
\* the batch filter without the availability condition
WhereIdInAnyAvailability(row, idset) == row.id \in idset

\* where: { id: { in: uniqueIds }, available: true }
WhereIdInAvailable(row, idset) == row.id \in idset /\ row.available

StoredIds(t) == {t[i].id : i \in DOMAIN t}
HasRow(t, id) == id \in StoredIds(t)
RowOf(t, id) == LET Test(row) == WhereId(row, id) IN Head(SelectSeq(t, Test))
IsAvailable(t, id) == HasRow(t, id) /\ RowOf(t, id).available

\* a table without the primary key
NoPrimaryKey(t, id) == FALSE
\* "id" TEXT NOT NULL PRIMARY KEY: an insert of a stored id is rejected
PrimaryKeyViolation(t, id) == HasRow(t, id)

\* 'available' defaults to true in the schema; the row goes to the end of the table
PrismaCreate(t, id, name, price) == Append(t, Row(id, name, price, TRUE))

\* update data that also carries available: true
ApplyUpdateDataAvailable(row, name, price) ==
  [row EXCEPT !.name = IF name = {} THEN @ ELSE Val(name),
              !.price = IF price = {} THEN @ ELSE Val(price),
              !.available = TRUE]
\* update data that writes every column, a field not supplied as its empty value
ApplyUpdateDataEveryField(row, name, price) ==
  [row EXCEPT !.name = IF name = {} THEN "" ELSE Val(name),
              !.price = IF price = {} THEN MinPrice ELSE Val(price)]

\* data built by mapToPrismaUpdateData applied to one row: only the supplied fields
ApplyUpdateData(row, name, price) ==
  [row EXCEPT !.name = IF name = {} THEN @ ELSE Val(name),
              !.price = IF price = {} THEN @ ELSE Val(price)]

\* an update whose write is lost: the table stays as it is
PrismaUpdateLost(t, id, name, price) == t

\* prisma.product.update({ where: { id }, data })
PrismaUpdate(t, id, name, price) ==
  [i \in DOMAIN t |-> IF t[i].id = id THEN ApplyUpdateData(t[i], name, price) ELSE t[i]]

\* the soft delete without its where clause: every row is marked unavailable
PrismaSoftDeleteEveryRow(t, id) ==
  [i \in DOMAIN t |-> [t[i] EXCEPT !.available = FALSE]]

\* prisma.product.update({ where: { id }, data: { available: false } })
PrismaSoftDelete(t, id) ==
  [i \in DOMAIN t |-> IF t[i].id = id THEN [t[i] EXCEPT !.available = FALSE] ELSE t[i]]

RECURSIVE TrimStart(_)
TrimStart(s) ==
  IF Len(s) > 0 /\ SubSeq(s, 1, 1) = " " THEN TrimStart(SubSeq(s, 2, Len(s))) ELSE s

RECURSIVE TrimEnd(_)
TrimEnd(s) ==
  IF Len(s) > 0 /\ SubSeq(s, Len(s), Len(s)) = " " THEN TrimEnd(SubSeq(s, 1, Len(s) - 1)) ELSE s

\* String.prototype.trim, as Product.updateDetails applies it to a name
Trim(s) == TrimEnd(TrimStart(s))

\* Product.updateDetails' test of a name: !name || name.trim().length === 0
NameIsBlank(name) == Len(name) = 0 \/ Len(Trim(name)) = 0

\* new Product(...) in mapToDomain throws when the price is negative
MapToDomainThrows(row) == row.price < 0

(* ------------------------------ responses ------------------------------ *)
NoMeta == [total |-> 0, page |-> 0, lastPage |-> 0]

Cmd(op, id, name, price, ids, page, limit) ==
  [op |-> op, id |-> id, name |-> name, price |-> price, ids |-> ids,
   page |-> page, limit |-> limit]

NoCmd == Cmd("none", 0, {}, {}, <<>>, {}, {})

\* a resolved handler promise
Ok(data, meta) ==
  [ok |-> TRUE, kind |-> "none", status |-> 0, msg |-> "none", data |-> data,
   meta |-> meta, missing |-> <<>>]

\* a thrown exception: its class, the status and the message it carries
Err(kind, status, msg) ==
  [ok |-> FALSE, kind |-> kind, status |-> status, msg |-> msg, data |-> <<>>,
   meta |-> NoMeta, missing |-> <<>>]

Rpc(status, msg) == Err("RpcException", status, msg)

\* dberr: what the storage call of the step raised ("none", "connection", "P2002")
\* sawAvailable: the product was stored and available when the request arrived
\* afterDelete: a delete_product of the same id had returned a product before
Reply(cmd, res, dberr, sawAvailable, afterDelete) ==
  [cmd |-> cmd, res |-> res, dberr |-> dberr,
   sawAvailable |-> sawAvailable, afterDelete |-> afterDelete]

NoReply == Reply(NoCmd, Ok(<<>>, NoMeta), "none", FALSE, FALSE)

\* a handler suspended at its second storage call; sawAvailable and afterDelete
\* are what held when the request arrived
Suspended(pc, cmd, sawAvailable, afterDelete) ==
  [pc |-> pc, cmd |-> cmd, sawAvailable |-> sawAvailable, afterDelete |-> afterDelete]

\* the node event loop runs one callback at a time: a new turn starts once the
\* response of the previous one has been handed to the transport
TurnFree == reply = NoReply

Init ==
  /\ table = <<>>
  /\ pending = EmptyBag
  /\ reply = NoReply
  /\ delOk = [i \in Ids |-> 0]

(* ----------------------- CommandBus and QueryBus ----------------------- *)
\* the command and query classes the controller instantiates
Intents ==
  {"CreateProductCommand", "UpdateProductCommand", "DeleteProductCommand",
   "FindAllProductsQuery", "FindOneProductQuery", "ValidateProductsQuery"}

\* the providers ProductsModule registers once, at startup
CommandHandlers == {"CreateProductHandler", "UpdateProductHandler", "DeleteProductHandler"}
QueryHandlers == {"FindAllProductsHandler", "FindOneProductHandler", "ValidateProductsHandler"}

\* a decorator copied along with its class: CreateProductHandler, which shares
\* a file with UpdateProductHandler, names UpdateProductCommand too
HandlerIntentCopied(handler) ==
  IF handler = "CreateProductHandler" THEN "UpdateProductCommand"
  ELSE IF handler = "UpdateProductHandler" THEN "UpdateProductCommand"
  ELSE IF handler = "DeleteProductHandler" THEN "DeleteProductCommand"
  ELSE IF handler = "FindAllProductsHandler" THEN "FindAllProductsQuery"
  ELSE IF handler = "FindOneProductHandler" THEN "FindOneProductQuery"
  ELSE "ValidateProductsQuery"

\* the class named by each handler's @CommandHandler / @QueryHandler decorator
HandlerIntent(handler) ==
  IF handler = "CreateProductHandler" THEN "CreateProductCommand"
  ELSE IF handler = "UpdateProductHandler" THEN "UpdateProductCommand"
  ELSE IF handler = "DeleteProductHandler" THEN "DeleteProductCommand"
  ELSE IF handler = "FindAllProductsHandler" THEN "FindAllProductsQuery"
  ELSE IF handler = "FindOneProductHandler" THEN "FindOneProductQuery"
  ELSE "ValidateProductsQuery"

\* the handlers the buses hold for a command or query class
HandlersFor(intent) ==
  {handler \in CommandHandlers \cup QueryHandlers : HandlerIntent(handler) = intent}

\* the class each controller method hands to commandBus.execute / queryBus.execute
ControllerIntent(op) ==
  IF op = "Create" THEN "CreateProductCommand"
  ELSE IF op = "FindAll" THEN "FindAllProductsQuery"
  ELSE IF op = "FindOne" THEN "FindOneProductQuery"
  ELSE IF op = "Update" THEN "UpdateProductCommand"
  ELSE IF op = "Delete" THEN "DeleteProductCommand"
  ELSE "ValidateProductsQuery"

(* ------------------- ValidationPipe and the DTO classes ---------------- *)
\* @Min(0) on CreateProductDto.price
PriceValidNoMin(price) == TRUE
PriceValid(price) == price >= MinPrice

\* CreateProductDto: name @IsString, price @IsNumber @Min(0)
CreateDtoValid(name, price) == PriceValid(price)

\* an update payload whose fields carry no validators
UpdateDtoUnvalidated(name, price) == TRUE
\* UpdateProductDto = PartialType(CreateProductDto): every field optional
UpdateDtoValid(name, price) ==
  price # {} => PriceValid(Val(price))

\* PaginationDto: page @IsOptional @IsPositive @Min(1), limit @IsOptional @IsPositive
PaginationDtoValid(page, limit) ==
  /\ page # {} => (Val(page) > 0 /\ Val(page) >= MinPage)
  /\ limit # {} => Val(limit) > 0

\* the exception the pipe throws before the controller method runs
PipeRejects == Err("BadRequestException", BAD_REQUEST, "Bad Request Exception")

(* ------------------------- repository: findById ------------------------ *)
\* a lookup by id alone
FindByIdAnyRow(t, id, fault) ==
  LET Test(row) == WhereId(row, id)
      rows == SelectSeq(t, Test)
  IN IF fault \/ rows = <<>> \/ MapToDomainThrows(Head(rows)) THEN <<>> ELSE <<Head(rows)>>
\* findFirst where id and available; any error is logged and null is returned
FindById(t, id, fault) ==
  LET Test(row) == WhereIdAvailable(row, id)
      rows == SelectSeq(t, Test)
  IN IF fault \/ rows = <<>> \/ MapToDomainThrows(Head(rows)) THEN <<>> ELSE <<Head(rows)>>

(* --------------------- repository: create / update --------------------- *)
\* what a repository call leaves behind: the table, its result, the storage error
Out(t, res, dberr) == [t |-> t, res |-> res, dberr |-> dberr]

\* create written as an upsert: a stored id is overwritten
RepoUpsert(t, id, name, price, fault) ==
  LET failed == Rpc(INTERNAL_SERVER_ERROR, "Database error creating product.")
      t2 == IF HasRow(t, id)
            THEN [i \in DOMAIN t |-> IF t[i].id = id THEN Row(id, name, price, TRUE) ELSE t[i]]
            ELSE PrismaCreate(t, id, name, price)
  IN IF fault THEN Out(t, failed, "connection")
     ELSE IF MapToDomainThrows(RowOf(t2, id)) THEN Out(t2, failed, "none")
     ELSE Out(t2, Ok(<<RowOf(t2, id)>>, NoMeta), "none")
\* PrismaProductRepository.create: every error becomes RpcException 500
RepoCreate(t, id, name, price, fault) ==
  LET failed == Rpc(INTERNAL_SERVER_ERROR, "Database error creating product.")
      t2 == PrismaCreate(t, id, name, price)
  IN IF fault THEN Out(t, failed, "connection")
     ELSE IF PrimaryKeyViolation(t, id) THEN Out(t, failed, "P2002")
     ELSE IF MapToDomainThrows(RowOf(t2, id)) THEN Out(t2, failed, "none")
     ELSE Out(t2, Ok(<<RowOf(t2, id)>>, NoMeta), "none")

\* PrismaProductRepository.update
RepoUpdate(t, id, name, price, fault) ==
  LET failed == Rpc(INTERNAL_SERVER_ERROR, "Database error updating product.")
      t2 == PrismaUpdate(t, id, name, price)
      current == FindById(t, id, fault)
  IN IF name = {} /\ price = {}
     THEN IF current = <<>>
          THEN Out(t, Err("Error", 0, "Product not found for update check."),
                   IF fault THEN "connection" ELSE "none")
          ELSE Out(t, Ok(current, NoMeta), "none")
     ELSE IF fault THEN Out(t, failed, "connection")
     ELSE IF ~HasRow(t, id)
          THEN Out(t, Rpc(NOT_FOUND, "Product not found for update."), "P2025")
     ELSE IF MapToDomainThrows(RowOf(t2, id)) THEN Out(t2, failed, "none")
     ELSE Out(t2, Ok(<<RowOf(t2, id)>>, NoMeta), "none")

\* a delete that removes the row and returns it marked unavailable
RepoHardDelete(t, id, fault) ==
  LET failed == Rpc(INTERNAL_SERVER_ERROR, "Database error deleting product.")
      Keep(row) == row.id # id
  IN IF fault THEN Out(t, failed, "connection")
     ELSE IF ~HasRow(t, id)
          THEN Out(t, Rpc(NOT_FOUND, "Product not found for deletion."), "P2025")
     ELSE Out(SelectSeq(t, Keep), Ok(<<[RowOf(t, id) EXCEPT !.available = FALSE]>>, NoMeta),
              "none")
\* PrismaProductRepository.softDelete
RepoSoftDelete(t, id, fault) ==
  LET failed == Rpc(INTERNAL_SERVER_ERROR, "Database error deleting product.")
      t2 == PrismaSoftDelete(t, id)
  IN IF fault THEN Out(t, failed, "connection")
     ELSE IF ~HasRow(t, id)
          THEN Out(t, Rpc(NOT_FOUND, "Product not found for deletion."), "P2025")
     ELSE IF MapToDomainThrows(RowOf(t2, id)) THEN Out(t2, failed, "none")
     ELSE Out(t2, Ok(<<RowOf(t2, id)>>, NoMeta), "none")

(* ------------------------ handlers' catch blocks ----------------------- *)
\* catch of find-one / update / delete / validate: an RpcException is re-thrown,
\* anything else is wrapped with error.status || 500 and error.message
Rethrow(res) ==
  IF res.ok \/ res.kind = "RpcException" THEN res
  ELSE Rpc(IF res.status # 0 THEN res.status ELSE INTERNAL_SERVER_ERROR, res.msg)

\* catch of create: everything is wrapped; an RpcException has no status property
Rewrap(res) ==
  IF res.ok THEN res
  ELSE Rpc(IF res.kind # "RpcException" /\ res.status # 0 THEN res.status
           ELSE INTERNAL_SERVER_ERROR, res.msg)

\* AllExceptionsFilter.catch: the error object handed to the transport. An
\* RpcException gives its own status and message (500 and 'Internal server
\* error' when it carries none), any other Error gives status 500 and its own
\* message, any other thrown value the two defaults.
Catch(res) ==
  LET status == IF res.kind = "RpcException" /\ res.status # 0 THEN res.status
                ELSE INTERNAL_SERVER_ERROR
      message == IF res.kind = "value" \/ res.msg = "" THEN "Internal server error"
                 ELSE res.msg
  IN [status |-> status, message |-> message, timestamp |-> "toISOString"]

NotFoundOrNotAvailable == Rpc(NOT_FOUND, "Product not found or not available")
NotFoundOrAlreadyUnavailable == Rpc(NOT_FOUND, "Product not found or already unavailable")

Bump(n) == IF n < 2 THEN n + 1 ELSE n

\* the rows for which new Product(...) throws, mapped in table order
AnyMapThrows(rows) == \E i \in DOMAIN rows : MapToDomainThrows(rows[i])

Min2(a, b) == IF a < b THEN a ELSE b

\* the quotient rounded down instead of up
Floor(total, limit) == total \div limit

\* Math.ceil(totalAvailable / limit)
Ceil(total, limit) == (total + limit - 1) \div limit

\* the tables a create or a soft delete of another request can leave between
\* two storage reads of one request
ConcurrentWrites(t) ==
  {t} \cup {PrismaSoftDelete(t, id) : id \in StoredIds(t)}
      \cup {PrismaCreate(t, id, "a", MinPrice) : id \in Ids \ StoredIds(t)}

\* the two queries sent one after the other outside a transaction: the second
\* reads what a concurrent write has left
NoTransaction(t, later) == later

\* prisma.$transaction([count, findMany]): both queries run in one database
\* transaction, so findMany reads the table count has read, whatever a
\* concurrent write does meanwhile
InTransaction(t, later) == t

\* an offset that skips the requested page as well
SkipThrough(page, limit) == page * limit

\* const skip = (page - 1) * limit
Skip(page, limit) == (page - 1) * limit

\* a limit left unset read as one row per page
LimitOrOne(limitOpt) == IF limitOpt = {} THEN 1 ELSE Val(limitOpt)

\* const { page = 1, limit = 10 } = paginationDto
LimitOrDefault(limitOpt) == IF limitOpt = {} THEN DefaultLimit ELSE Val(limitOpt)
PageOrDefault(pageOpt) == IF pageOpt = {} THEN DefaultPage ELSE Val(pageOpt)

\* PrismaProductRepository.findAllAvailablePaginated; later is the table a
\* concurrent write may have left by the time findMany runs
RepoFindAllAvailablePaginated(t, later, pageOpt, limitOpt, fault) ==
  LET page == PageOrDefault(pageOpt)
      limit == LimitOrDefault(limitOpt)
      skip == Skip(page, limit)
      totalAvailable == Len(SelectSeq(t, WhereAvailable))
      available == SelectSeq(InTransaction(t, later), WhereAvailable)
      prismaProducts == SubSeq(available, skip + 1, Min2(skip + limit, Len(available)))
      failed == Rpc(INTERNAL_SERVER_ERROR, "Database error finding products.")
  IN IF fault THEN Out(t, failed, "connection")
     ELSE IF AnyMapThrows(prismaProducts) THEN Out(t, failed, "none")
     ELSE Out(t, Ok(prismaProducts, [total |-> totalAvailable, page |-> page,
                                     lastPage |-> Ceil(totalAvailable, limit)]), "none")

\* the id array taken as it is, duplicates kept
UniqueNone(ids) == ids

RECURSIVE Unique(_)
\* Array.from(new Set(ids)): first occurrences, in order
Unique(ids) ==
  IF ids = <<>> THEN <<>>
  ELSE LET front == Unique(SubSeq(ids, 1, Len(ids) - 1))
           last == ids[Len(ids)]
       IN IF \E i \in DOMAIN front : front[i] = last THEN front ELSE Append(front, last)

SeqToSet(q) == {q[i] : i \in DOMAIN q}

\* PrismaProductRepository.findAvailableByIds
RepoFindAvailableByIds(t, ids, fault) ==
  LET Test(row) == WhereIdInAvailable(row, SeqToSet(Unique(ids)))
      prismaProducts == SelectSeq(t, Test)
      failed == Rpc(INTERNAL_SERVER_ERROR, "Database error finding products by IDs.")
  IN IF ids = <<>> THEN Out(t, Ok(<<>>, NoMeta), "none")
     ELSE IF fault THEN Out(t, failed, "connection")
     ELSE IF AnyMapThrows(prismaProducts) THEN Out(t, failed, "none")
     ELSE Out(t, Ok(prismaProducts, NoMeta), "none")

\* ValidateProductsHandler.execute
ValidateProducts(t, ids, fault) ==
  LET uniqueIds == Unique(ids)
      out == RepoFindAvailableByIds(t, uniqueIds, fault)
      foundIds == {out.res.data[i].id : i \in DOMAIN out.res.data}
      Missing(id) == id \notin foundIds
      missingIds == SelectSeq(uniqueIds, Missing)
  IN IF uniqueIds = <<>> THEN Out(t, Ok(<<>>, NoMeta), "none")
     ELSE IF ~out.res.ok THEN Out(t, Rethrow(out.res), out.dberr)
     ELSE IF Len(out.res.data) # Len(uniqueIds)
          THEN Out(t, [Rpc(BAD_REQUEST, "Some products were not found or are unavailable")
                         EXCEPT !.missing = missingIds], "none")
     ELSE out

(* ------------------------------- actions ------------------------------- *)
\* create_product: pipe, CreateProductHandler.execute, repository create
Create ==
  /\ TurnFree
  /\ \E name \in Names, price \in Prices, uuid \in Ids, fault \in BOOLEAN :
       IF ~CreateDtoValid(name, price)
       THEN /\ reply' = Reply(Cmd("Create", 0, {name}, {price}, <<>>, {}, {}), PipeRejects,
                              "none", FALSE, FALSE)
            /\ table' = table
       ELSE LET out == RepoCreate(table, uuid, name, price, fault)
            IN /\ reply' = Reply(Cmd("Create", uuid, {name}, {price}, <<>>, {}, {}),
                                 Rewrap(out.res), out.dberr, FALSE, FALSE)
               /\ table' = out.t
  /\ UNCHANGED <<pending, delOk>>

\* A find_one_product that consumes what it reads: the row it returns is marked
\* unavailable by the read.
FindOneConsuming ==
  /\ TurnFree
  /\ \E id \in Ids, fault \in BOOLEAN :
       LET product == FindById(table, id, fault)
       IN /\ reply' = Reply(Cmd("FindOne", id, {}, {}, <<>>, {}, {}),
                            IF product = <<>> THEN NotFoundOrNotAvailable
                            ELSE Ok(product, NoMeta),
                            IF fault THEN "connection" ELSE "none",
                            IsAvailable(table, id), delOk[id] >= 1)
          /\ table' = IF product = <<>> THEN table ELSE PrismaSoftDelete(table, id)
  /\ UNCHANGED <<pending, delOk>>

\* find_one_product: FindOneProductHandler.execute
FindOne ==
  /\ TurnFree
  /\ \E id \in Ids, fault \in BOOLEAN :
       LET product == FindById(table, id, fault)
       IN reply' = Reply(Cmd("FindOne", id, {}, {}, <<>>, {}, {}),
                         IF product = <<>> THEN NotFoundOrNotAvailable
                         ELSE Ok(product, NoMeta),
                         IF fault THEN "connection" ELSE "none",
                         IsAvailable(table, id), delOk[id] >= 1)
  /\ UNCHANGED <<table, pending, delOk>>

\* update_product up to the await of findById in UpdateProductHandler.execute
UpdateFind ==
  /\ TurnFree
  /\ \E id \in Ids, name \in Opt(Names), price \in Opt(Prices), fault \in BOOLEAN :
       LET cmd == Cmd("Update", id, name, price, <<>>, {}, {})
       IN IF ~UpdateDtoValid(name, price)
          THEN /\ reply' = Reply(cmd, PipeRejects, "none", IsAvailable(table, id),
                                 delOk[id] >= 1)
               /\ pending' = pending
          ELSE IF FindById(table, id, fault) = <<>>
          THEN /\ reply' = Reply(cmd, NotFoundOrNotAvailable,
                                 IF fault THEN "connection" ELSE "none",
                                 IsAvailable(table, id), delOk[id] >= 1)
               /\ pending' = pending
          ELSE /\ BagCardinality(pending) < MaxInFlight
               /\ pending' = pending (+) SetToBag({Suspended("update", cmd, IsAvailable(table, id),
                                                              delOk[id] >= 1)})
               /\ reply' = reply
  /\ UNCHANGED <<table, delOk>>

\* the rest of UpdateProductHandler.execute: repository update and the catch
UpdateWrite ==
  /\ TurnFree
  /\ \E h \in BagToSet(pending), fault \in BOOLEAN :
       /\ h.pc = "update"
       /\ LET out == RepoUpdate(table, h.cmd.id, h.cmd.name, h.cmd.price, fault)
          IN /\ reply' = Reply(h.cmd, Rethrow(out.res), out.dberr, h.sawAvailable,
                               h.afterDelete)
             /\ table' = out.t
       /\ pending' = pending (-) SetToBag({h})
  /\ UNCHANGED delOk

\* delete_product up to the await of findById in DeleteProductHandler.execute
DeleteFind ==
  /\ TurnFree
  /\ \E id \in Ids, fault \in BOOLEAN :
       LET cmd == Cmd("Delete", id, {}, {}, <<>>, {}, {})
       IN IF FindById(table, id, fault) = <<>>
          THEN /\ reply' = Reply(cmd, NotFoundOrAlreadyUnavailable,
                                 IF fault THEN "connection" ELSE "none",
                                 IsAvailable(table, id), delOk[id] >= 1)
               /\ pending' = pending
          ELSE /\ BagCardinality(pending) < MaxInFlight
               /\ pending' = pending (+) SetToBag({Suspended("softDelete", cmd,
                                                              IsAvailable(table, id),
                                                              delOk[id] >= 1)})
               /\ reply' = reply
  /\ UNCHANGED <<table, delOk>>

\* a handler that on a failed softDelete goes back to wait for another try
\* instead of throwing
DeleteWriteRetry ==
  /\ TurnFree
  /\ \E h \in BagToSet(pending), fault \in BOOLEAN :
       /\ h.pc = "softDelete"
       /\ LET out == RepoSoftDelete(table, h.cmd.id, fault)
              res == Rethrow(out.res)
          IN IF res.ok
             THEN /\ reply' = Reply(h.cmd, res, out.dberr, h.sawAvailable, h.afterDelete)
                  /\ table' = out.t
                  /\ delOk' = [delOk EXCEPT ![h.cmd.id] = Bump(@)]
                  /\ pending' = pending (-) SetToBag({h})
             ELSE /\ UNCHANGED <<reply, table, delOk>>
                  /\ pending' = (pending (-) SetToBag({h}))
                                  (+) SetToBag({[h EXCEPT !.pc = "retry"]})

\* the rest of DeleteProductHandler.execute: repository softDelete and the catch
DeleteWrite ==
  /\ TurnFree
  /\ \E h \in BagToSet(pending), fault \in BOOLEAN :
       /\ h.pc = "softDelete"
       /\ LET out == RepoSoftDelete(table, h.cmd.id, fault)
              res == Rethrow(out.res)
          IN /\ reply' = Reply(h.cmd, res, out.dberr, h.sawAvailable, h.afterDelete)
             /\ table' = out.t
             /\ delOk' = [delOk EXCEPT ![h.cmd.id] = IF res.ok THEN Bump(@) ELSE @]
       /\ pending' = pending (-) SetToBag({h})

\* find_all_products: pipe, FindAllProductsHandler.execute
FindAll ==
  /\ TurnFree
  /\ \E page \in Opt(Pages), limit \in Opt(Limits), fault \in BOOLEAN,
        later \in ConcurrentWrites(table) :
       LET cmd == Cmd("FindAll", 0, {}, {}, <<>>, page, limit)
           out == RepoFindAllAvailablePaginated(table, later, page, limit, fault)
       IN IF ~PaginationDtoValid(page, limit)
          THEN reply' = Reply(cmd, PipeRejects, "none", FALSE, FALSE)
          ELSE reply' = Reply(cmd,
                              IF out.res.ok THEN out.res
                              ELSE Rpc(INTERNAL_SERVER_ERROR, "Database error finding products."),
                              out.dberr, FALSE, FALSE)
  /\ UNCHANGED <<table, pending, delOk>>

\* validate_products: ValidateProductsHandler.execute
ValidateBatch ==
  /\ TurnFree
  /\ \E n \in 0..MaxBatch, fault \in BOOLEAN :
       \E ids \in [1..n -> Ids] :
         LET out == ValidateProducts(table, ids, fault)
         IN reply' = Reply(Cmd("ValidateBatch", 0, {}, {}, ids, {}, {}), out.res, out.dberr,
                           FALSE, FALSE)
  /\ UNCHANGED <<table, pending, delOk>>

\* the controller method returns (or the exception filter runs): the response
\* leaves for the transport and the turn ends
Deliver ==
  /\ ~TurnFree
  /\ reply' = NoReply
  /\ UNCHANGED <<table, pending, delOk>>

Next ==
  \/ Create
  \/ FindOne
  \/ UpdateFind
  \/ UpdateWrite
  \/ DeleteFind
  \/ DeleteWrite
  \/ FindAll
  \/ ValidateBatch
  \/ Deliver

Spec == Init /\ [][Next]_vars

(* --------------------------- the Product entity ------------------------ *)
\* the names handed to updateDetails: those of the payloads and one that trim changes
EntityNames == Names \cup {" b "}

\* the result of an entity method: the entity as the call leaves it, and
\* whether the call returned or threw
Returned(entity) == [entity |-> entity, res |-> Ok(<<>>, NoMeta)]
Threw(entity, msg) == [entity |-> entity, res |-> Err("Error", 0, msg)]

\* Product.updateDetails: the name is checked and assigned first, then the price
UpdateDetails(product, name, price) ==
  IF name # {} /\ NameIsBlank(Val(name))
  THEN Threw(product, "Product name cannot be empty.")
  ELSE LET named == IF name # {} THEN [product EXCEPT !.name = Trim(Val(name))]
                    ELSE product
       IN IF price # {} /\ Val(price) < 0
          THEN Threw(named, "Product price cannot be negative.")
          ELSE Returned(IF price # {} THEN [named EXCEPT !.price = Val(price)] ELSE named)

\* a method that flips the flag
ToggleAvailable(product) == [product EXCEPT !.available = ~product.available]

\* Product.markAsUnavailable
MarkAsUnavailable(product) == [product EXCEPT !.available = FALSE]

\* new Product(id, name, price, available): one entity, held as the only row of
\* table; reply holds the last method call and its outcome
EntityInit ==
  /\ \E id \in Ids, name \in EntityNames, price \in Prices, available \in BOOLEAN :
       /\ ~MapToDomainThrows(Row(id, name, price, available))
       /\ table = <<Row(id, name, price, available)>>
  /\ pending = EmptyBag
  /\ reply = NoReply
  /\ delOk = [i \in Ids |-> 0]

EntityUpdateDetails ==
  /\ \E name \in Opt(EntityNames), price \in Opt(Prices) :
       LET out == UpdateDetails(table[1], name, price)
       IN /\ table' = <<out.entity>>
          /\ reply' = Reply(Cmd("updateDetails", table[1].id, name, price, <<>>, {}, {}),
                            out.res, "none", table[1].available, FALSE)
  /\ UNCHANGED <<pending, delOk>>

EntityMarkAsUnavailable ==
  /\ table' = <<MarkAsUnavailable(table[1])>>
  /\ reply' = Reply(Cmd("markAsUnavailable", table[1].id, {}, {}, <<>>, {}, {}),
                    Ok(<<>>, NoMeta), "none", table[1].available, FALSE)
  /\ UNCHANGED <<pending, delOk>>

EntityNext ==
  \/ EntityUpdateDetails
  \/ EntityMarkAsUnavailable

EntitySpec == EntityInit /\ [][EntityNext]_vars

(* --------------------- handlers under fair scheduling ------------------ *)
\* the fair specification is about the requests on one product
LiveIds == {MaxId}

\* the update_product and delete_product payloads of the fair specification
LiveCmds ==
  {Cmd("Update", id, name, price, <<>>, {}, {}) :
     id \in LiveIds, name \in Opt({"a"}), price \in Opt({MinPrice})}
  \cup {Cmd("Delete", id, {}, {}, <<>>, {}, {}) : id \in LiveIds}

\* the fair specification takes its payloads from one id, one name, one price,
\* one page and one limit
Narrow ==
  /\ \A i \in DOMAIN table :
       table[i].id \in LiveIds /\ table[i].name = "a" /\ table[i].price = MinPrice
  /\ \A h \in BagToSet(pending) : h.cmd.id \in LiveIds
  /\ reply.cmd.id \in LiveIds \cup {0}
  /\ reply.cmd.name \subseteq {"a"}
  /\ reply.cmd.price \subseteq {MinPrice}
  /\ SeqToSet(reply.cmd.ids) \subseteq LiveIds
  /\ reply.cmd.page \subseteq {DefaultPage}
  /\ reply.cmd.limit \subseteq {MaxLimit}

LiveNext == Next /\ Narrow'

\* the second storage call of the handler of cmd returns and the handler runs
\* to its end
Resume(cmd) == (UpdateWrite \/ DeleteWrite) /\ reply'.cmd = cmd

\* every storage call returns and its continuation gets its turn on the event
\* loop; every response is handed to the transport
LiveSpec ==
  /\ Init
  /\ [][LiveNext]_vars
  /\ WF_vars(Deliver)
  /\ \A cmd \in LiveCmds : SF_vars(Resume(cmd))

(* ------------------------------- claims -------------------------------- *)
\* a response is produced in this step
Responded == reply = NoReply /\ reply' # NoReply

IsNotFound(res) == ~res.ok /\ res.kind = "RpcException" /\ res.status = NOT_FOUND

\* C1: a delete_product of a product that is available when the request arrives
\* returns the product when none of its storage calls fails, and a
\* delete_product that arrives after a delete_product of the same id has
\* returned the product fails with an RpcException of status 404.
C1_DeleteTwice ==
  reply.cmd.op = "Delete" =>
    /\ (reply.sawAvailable /\ reply.dberr = "none") => reply.res.ok
    /\ reply.afterDelete => IsNotFound(reply.res)

\* C1 witness: the second delete_product of an id, after the first one returned
\* the product, has just failed with 404.
C1_Witness ==
  /\ reply.cmd.op = "Delete"
  /\ reply.afterDelete
  /\ delOk[reply.cmd.id] = 1
  /\ IsNotFound(reply.res)

\* C2: for every id at most one delete_product request returns the product,
\* whatever the interleaving of the requests' findById and softDelete calls.
C2_AtMostOneDeleteSucceeds == \A id \in Ids : delOk[id] <= 1

C4_UpdateNeverOnUnavailable ==
  (reply.cmd.op = "Update" /\ reply.res.ok) => reply.res.data[1].available

\* C5: a stored product that is unavailable stays stored and unavailable in
\* every step of every request.
C5_AvailableOneWay ==
  [][\A id \in Ids :
       (HasRow(table, id) /\ ~IsAvailable(table, id))
         => (HasRow(table', id) /\ ~IsAvailable(table', id))]_vars

\* C5 witness: an update_product racing a delete_product has written to the
\* soft-deleted product, which is still unavailable.
C5_Witness ==
  /\ reply.cmd.op = "Update"
  /\ reply.res.ok
  /\ reply.cmd.name # {}
  /\ HasRow(table, reply.cmd.id)
  /\ ~IsAvailable(table, reply.cmd.id)

\* C6: no step removes a row or changes a row's id, and when delete_product
\* returns a product the row with that id is stored with available = false.
C6_NeverRemoved ==
  [][/\ \A i \in DOMAIN table : i \in DOMAIN table' /\ table'[i].id = table[i].id
     /\ (reply'.cmd.op = "Delete" /\ reply'.res.ok)
          => (HasRow(table', reply'.cmd.id) /\ ~RowOf(table', reply'.cmd.id).available)]_vars

\* C6 witness: delete_product has just returned the product while another
\* product is stored, and both rows are in the table.
C6_Witness ==
  /\ reply.cmd.op = "Delete"
  /\ reply.res.ok
  /\ Len(table) = 2
  /\ ~IsAvailable(table, reply.cmd.id)

\* C7: when create_product returns a product, the price is >= 0, the returned
\* product has the payload's name and price, available = true and an id no
\* stored product had, and it is the row now stored under that id.
C7_CreateFresh ==
  [][(Responded /\ reply'.cmd.op = "Create" /\ reply'.res.ok)
       => LET cmd == reply'.cmd
              product == Row(cmd.id, Val(cmd.name), Val(cmd.price), TRUE)
          IN /\ Val(cmd.price) >= 0
             /\ reply'.res.data = <<product>>
             /\ ~HasRow(table, cmd.id)
             /\ table' = Append(table, product)]_vars

\* C7 witness: a second product has just been created next to a stored one.
C7_Witness ==
  /\ reply.cmd.op = "Create"
  /\ reply.res.ok
  /\ Len(table) = 2
  /\ reply.res.data[1].id = table[2].id
  /\ table[1].id # table[2].id

\* C8: a create_product whose generated id is already stored fails with an
\* RpcException of status 500 and leaves the table unchanged.
C8_CollisionIsStorageError ==
  [][(Responded /\ reply'.cmd.op = "Create" /\ HasRow(table, reply'.cmd.id))
       => /\ ~reply'.res.ok
          /\ reply'.res.kind = "RpcException"
          /\ reply'.res.status = INTERNAL_SERVER_ERROR
          /\ table' = table]_vars

\* C8 witness: a create_product has just failed on the primary key of a stored
\* product that carries another name or price.
C8_Witness ==
  /\ reply.cmd.op = "Create"
  /\ reply.dberr = "P2002"
  /\ reply.res.status = INTERNAL_SERVER_ERROR
  /\ HasRow(table, reply.cmd.id)
  /\ RowOf(table, reply.cmd.id).price # Val(reply.cmd.price)

\* C9: every stored product has price >= 0.
C9_PriceNonNegative == \A i \in DOMAIN table : table[i].price >= MinPrice

\* C9 witness: an update_product has just changed the price of a stored product.
C9_Witness ==
  /\ reply.cmd.op = "Update"
  /\ reply.res.ok
  /\ reply.cmd.price # {}
  /\ RowOf(table, reply.cmd.id).price = Val(reply.cmd.price)
  /\ Val(reply.cmd.price) > 0

\* C10: an update_product with a negative price for an available product fails
\* with the ValidationPipe's exception and leaves the table unchanged.
C10_NegativePriceRejected ==
  [][(Responded /\ reply'.cmd.op = "Update" /\ reply'.cmd.price # {}
        /\ reply'.sawAvailable)
       => (Val(reply'.cmd.price) < 0 => (reply'.res = PipeRejects /\ table' = table))]_vars

\* C10 witness: an update_product with price -1 for an available product has
\* just been rejected.
C10_Witness ==
  /\ reply.cmd.op = "Update"
  /\ reply.cmd.price = {0 - 1}
  /\ reply.sawAvailable
  /\ IsAvailable(table, reply.cmd.id)
  /\ reply.res = PipeRejects

\* C11: no stored product has an empty or whitespace-only name, and a
\* create_product or update_product whose supplied name trims to empty does not
\* return a product.
C11_NameNeverBlank ==
  /\ \A i \in DOMAIN table : ~NameIsBlank(table[i].name)
  /\ (reply.cmd.op \in {"Create", "Update"} /\ reply.cmd.name # {}
        /\ NameIsBlank(Val(reply.cmd.name))) => ~reply.res.ok

\* C12: when its storage query does not fail, a validate_products returns the
\* stored rows of its distinct ids, one each, exactly when every distinct id is
\* stored and available; otherwise it fails with an RpcException of status 400
\* whose missingIds are exactly the distinct ids that are absent or
\* unavailable, each once, and it returns no product.
C12_BatchAllOrNothing ==
  (reply.cmd.op = "ValidateBatch" /\ reply.dberr = "none") =>
    LET distinct == SeqToSet(reply.cmd.ids)
        usable == {id \in distinct : IsAvailable(table, id)}
        res == reply.res
    IN IF usable = distinct
       THEN /\ res.ok
            /\ Len(res.data) = Cardinality(distinct)
            /\ \A id \in distinct : \E i \in DOMAIN res.data : res.data[i] = RowOf(table, id)
       ELSE /\ ~res.ok
            /\ res.kind = "RpcException"
            /\ res.status = BAD_REQUEST
            /\ SeqToSet(res.missing) = distinct \ usable
            /\ Len(res.missing) = Cardinality(distinct \ usable)
            /\ res.data = <<>>

\* C12 witness: a validate_products of two distinct ids, one available and one
\* soft-deleted, has just failed listing the soft-deleted id alone.
C12_Witness ==
  /\ reply.cmd.op = "ValidateBatch"
  /\ Len(reply.cmd.ids) = 2
  /\ \E i, j \in DOMAIN reply.cmd.ids :
       /\ IsAvailable(table, reply.cmd.ids[i])
       /\ HasRow(table, reply.cmd.ids[j])
       /\ ~IsAvailable(table, reply.cmd.ids[j])
       /\ reply.res.missing = <<reply.cmd.ids[j]>>
  /\ reply.res.status = BAD_REQUEST

\* the id arrays without duplicates that hold exactly the ids of the array ids
Deduplicated(ids) ==
  {d \in UNION {[1..k -> Ids] : k \in 0..Len(ids)} :
     /\ SeqToSet(d) = SeqToSet(ids)
     /\ \A i, j \in DOMAIN d : d[i] = d[j] => i = j}

\* C13: a validate_products with an empty id array returns an empty array with
\* no storage query (so no storage failure can touch it), and a
\* validate_products of any id array ends as the one of the same ids without
\* duplicates does: same success or failure, same status, same set of products,
\* same set of missingIds.
C13_BatchEmptyAndDuplicates ==
  reply.cmd.op = "ValidateBatch" =>
    /\ reply.cmd.ids = <<>> => (reply.res = Ok(<<>>, NoMeta) /\ reply.dberr = "none")
    /\ \A d \in Deduplicated(reply.cmd.ids) :
         LET r == ValidateProducts(table, d, reply.dberr = "connection").res
         IN /\ reply.res.ok = r.ok
            /\ reply.res.status = r.status
            /\ SeqToSet(reply.res.data) = SeqToSet(r.data)
            /\ SeqToSet(reply.res.missing) = SeqToSet(r.missing)

\* C13 witness: a validate_products that names one available id twice has just
\* returned that product once.
C13_Witness ==
  /\ reply.cmd.op = "ValidateBatch"
  /\ Len(reply.cmd.ids) = 2
  /\ reply.cmd.ids[1] = reply.cmd.ids[2]
  /\ reply.res.ok
  /\ Len(reply.res.data) = 1
  /\ reply.res.data[1].id = reply.cmd.ids[1]

\* the page and the limit a find_all_products payload asks for
RequestedPage(cmd) == IF cmd.page = {} THEN DefaultPage ELSE Val(cmd.page)
RequestedLimit(cmd) == IF cmd.limit = {} THEN DefaultLimit ELSE Val(cmd.limit)

\* the rows of the table with available = true
AvailableIds(t) == {id \in StoredIds(t) : IsAvailable(t, id)}

\* C14: a find_all_products with page >= 1 and limit >= 1 (or left to their
\* defaults) whose storage transaction does not fail returns meta.total = the
\* number of available rows, meta.page = the page asked for and meta.lastPage =
\* the least n with n * limit >= total, i.e. ceil(total / limit); when the page
\* asked for is beyond lastPage the data array is empty.
C14_PaginationMeta ==
  (/\ reply.cmd.op = "FindAll"
   /\ RequestedPage(reply.cmd) >= 1
   /\ RequestedLimit(reply.cmd) >= 1
   /\ reply.dberr = "none") =>
    LET meta == reply.res.meta
        L == RequestedLimit(reply.cmd)
    IN /\ reply.res.ok
       /\ meta.total = Cardinality(AvailableIds(table))
       /\ meta.page = RequestedPage(reply.cmd)
       /\ meta.lastPage >= 0
       /\ meta.lastPage * L >= meta.total
       /\ (meta.lastPage - 1) * L < meta.total
       /\ meta.page > meta.lastPage => reply.res.data = <<>>

\* C14 witness: a find_all_products for page 2 has just returned no rows, a
\* total of 1 and lastPage 1.
C14_Witness ==
  /\ reply.cmd.op = "FindAll"
  /\ reply.res.ok
  /\ reply.cmd.page = {2}
  /\ reply.cmd.limit = {2}
  /\ reply.res.meta.total = 1
  /\ reply.res.meta.lastPage = 1
  /\ reply.res.data = <<>>

\* C15: a find_all_products returns only rows that are stored with available =
\* true and its meta.total counts exactly those; an id whose delete_product has
\* returned the product is in no later page and is not counted. With two rows A
\* and B created in this order, page 1 of limit 1 is [A] with total 2 and
\* lastPage 2 while both are available, and [B] with total 1 and lastPage 1
\* once A is soft-deleted.
C15_OnlyAvailableListed ==
  (reply.cmd.op = "FindAll" /\ reply.res.ok) =>
    LET data == reply.res.data
        meta == reply.res.meta
    IN /\ \A i \in DOMAIN data :
            /\ data[i].available
            /\ IsAvailable(table, data[i].id)
            /\ data[i] = RowOf(table, data[i].id)
       /\ meta.total = Cardinality(AvailableIds(table))
       /\ \A id \in Ids : delOk[id] >= 1 =>
            /\ id \notin AvailableIds(table)
            /\ \A i \in DOMAIN data : data[i].id # id
       /\ (Len(table) = 2 /\ reply.cmd.page = {1} /\ reply.cmd.limit = {1}) =>
            /\ (table[1].available /\ table[2].available) =>
                 (data = <<table[1]>> /\ meta.total = 2 /\ meta.lastPage = 2)
            /\ (~table[1].available /\ table[2].available) =>
                 (data = <<table[2]>> /\ meta.total = 1 /\ meta.lastPage = 1)

\* C15 witness: of two stored rows the first has been soft-deleted by a
\* delete_product that returned it, and a find_all_products for page 1 of limit
\* 1 has just returned the second row alone, with total 1 and lastPage 1.
C15_Witness ==
  /\ reply.cmd.op = "FindAll"
  /\ reply.cmd.page = {1}
  /\ reply.cmd.limit = {1}
  /\ Len(table) = 2
  /\ ~table[1].available
  /\ delOk[table[1].id] = 1
  /\ reply.res.ok
  /\ reply.res.data = <<table[2]>>
  /\ reply.res.meta = [total |-> 1, page |-> 1, lastPage |-> 1]

Max2(a, b) == IF a > b THEN a ELSE b

\* C16: whatever create or soft delete of another request lands while a
\* find_all_products is being answered, its total and its rows describe one
\* state of the table: the number of rows is min(limit, max(0, total - (page -
\* 1) * limit)) and every row is a row with available = true of the table that
\* total was counted in.
C16_CountAndRowsAgree ==
  (reply.cmd.op = "FindAll" /\ reply.res.ok) =>
    LET data == reply.res.data
        total == reply.res.meta.total
        page == RequestedPage(reply.cmd)
        limit == RequestedLimit(reply.cmd)
    IN /\ total = Cardinality(AvailableIds(table))
       /\ Len(data) = Min2(limit, Max2(0, total - (page - 1) * limit))
       /\ \A i \in DOMAIN data :
            \E j \in DOMAIN table : table[j] = data[i] /\ table[j].available

\* C16 witness: a find_all_products has just listed a product while a
\* delete_product of that product is suspended between its findById and its
\* softDelete.
C16_Witness ==
  /\ reply.cmd.op = "FindAll"
  /\ reply.res.ok
  /\ \E h \in BagToSet(pending) :
       /\ h.pc = "softDelete"
       /\ \E i \in DOMAIN reply.res.data : reply.res.data[i].id = h.cmd.id

RECURSIVE PagesUpTo(_, _, _)
\* the rows of pages 1..n of the table t for one limit, page after page
PagesUpTo(t, limitOpt, n) ==
  IF n = 0 THEN <<>>
  ELSE PagesUpTo(t, limitOpt, n - 1)
         \o RepoFindAllAvailablePaginated(t, t, {n}, limitOpt, FALSE).res.data

C18_UpdateFrame ==
  [][(Responded /\ reply'.cmd.op = "Update" /\ reply'.res.ok) =>
       LET cmd == reply'.cmd
           old == RowOf(table, cmd.id)
           new == RowOf(table', cmd.id)
       IN /\ HasRow(table, cmd.id)
          /\ Len(table') = Len(table)
          /\ \A i \in DOMAIN table : table[i].id # cmd.id => table'[i] = table[i]
          /\ \A i \in DOMAIN table : table'[i].id = table[i].id
          /\ new.available = old.available
          /\ new.name = (IF cmd.name = {} THEN old.name ELSE Val(cmd.name))
          /\ new.price = (IF cmd.price = {} THEN old.price ELSE Val(cmd.price))
          /\ reply'.res.data = <<new>>]_vars

\* C18 witness: of two stored products one has just been given a new price by
\* an update_product that supplied the price alone.
C18_Witness ==
  /\ reply.cmd.op = "Update"
  /\ reply.res.ok
  /\ reply.cmd.name = {}
  /\ reply.cmd.price = {1}
  /\ Len(table) = 2
  /\ reply.res.data = <<RowOf(table, reply.cmd.id)>>
  /\ RowOf(table, reply.cmd.id).price = 1
  /\ \E i \in DOMAIN table : table[i].id # reply.cmd.id /\ table[i].price = 0

\* C19: a delete_product that returns a product returns the row of that id
\* with available = false and its name and price as they were, and the write
\* changes nothing else: that row keeps its id, name and price, every other row
\* is as before, and no row is added or removed.
C19_DeleteFrame ==
  [][(Responded /\ reply'.cmd.op = "Delete" /\ reply'.res.ok) =>
       LET cmd == reply'.cmd
           old == RowOf(table, cmd.id)
           new == RowOf(table', cmd.id)
       IN /\ HasRow(table, cmd.id)
          /\ Len(table') = Len(table)
          /\ \A i \in DOMAIN table : table[i].id # cmd.id => table'[i] = table[i]
          /\ new = [old EXCEPT !.available = FALSE]
          /\ reply'.res.data = <<new>>
          /\ ~reply'.res.data[1].available]_vars

\* C19 witness: of two available products one has just been soft-deleted by a
\* delete_product that returned it, and the other is still available.
C19_Witness ==
  /\ reply.cmd.op = "Delete"
  /\ reply.res.ok
  /\ Len(table) = 2
  /\ reply.res.data = <<RowOf(table, reply.cmd.id)>>
  /\ ~RowOf(table, reply.cmd.id).available
  /\ \E i \in DOMAIN table : table[i].id # reply.cmd.id /\ table[i].available

\* C20: a request one of whose storage calls failed (findById included) ends
\* with an error of status 500: it neither returns a result nor ends with
\* status 404.
C20_StorageFailureIs500 ==
  reply.dberr = "connection" =>
    /\ ~reply.res.ok
    /\ reply.res.status = INTERNAL_SERVER_ERROR
    /\ ~IsNotFound(reply.res)

\* C21: every failure leaves the service as {status, message, timestamp}, and
\* a failure that is not an RpcException leaves with status 500 and the
\* generic message 'Internal server error', not with the message of the
\* exception.
C21_UnclassifiedFailureIsGeneric ==
  ~reply.res.ok =>
    LET wire == Catch(reply.res)
    IN /\ DOMAIN wire = {"status", "message", "timestamp"}
       /\ reply.res.kind # "RpcException" =>
            /\ wire.status = INTERNAL_SERVER_ERROR
            /\ wire.message = "Internal server error"
            /\ wire.message # reply.res.msg

\* C22: when an update_product has written a row while another update_product
\* of the same available product is suspended between its findById and its
\* write, the write of the second is not rejected and after it every field
\* holds the value of the last request that supplied it: the second's if it
\* supplies the field, else the first's if it supplies the field, else the
\* value from before both; the other rows are untouched.
C22_LastWriterWins ==
  [][(Responded /\ reply'.cmd.op = "Update" /\ reply'.res.ok) =>
       \A h \in BagToSet(pending') :
         (h.pc = "update" /\ h.cmd.id = reply'.cmd.id /\ IsAvailable(table', h.cmd.id)) =>
           LET first == reply'.cmd
               second == h.cmd
               before == RowOf(table, first.id)
               out == RepoUpdate(table', second.id, second.name, second.price, FALSE)
               after == RowOf(out.t, first.id)
           IN /\ out.res.ok
              /\ out.res.data = <<after>>
              /\ after.name = (IF second.name # {} THEN Val(second.name)
                               ELSE IF first.name # {} THEN Val(first.name)
                               ELSE before.name)
              /\ after.price = (IF second.price # {} THEN Val(second.price)
                                ELSE IF first.price # {} THEN Val(first.price)
                                ELSE before.price)
              /\ \A i \in DOMAIN table : table[i].id # first.id => out.t[i] = table[i]]_vars

\* C22 witness: an update_product has just written a name and a price to an
\* available product while another update_product of the same product, which
\* supplies a different price and no name, is suspended before its write.
C22_Witness ==
  /\ reply.cmd.op = "Update"
  /\ reply.res.ok
  /\ reply.cmd.name # {}
  /\ reply.cmd.price # {}
  /\ IsAvailable(table, reply.cmd.id)
  /\ RowOf(table, reply.cmd.id).price = Val(reply.cmd.price)
  /\ \E h \in BagToSet(pending) :
       /\ h.pc = "update"
       /\ h.cmd.id = reply.cmd.id
       /\ h.cmd.name = {}
       /\ h.cmd.price # {}
       /\ h.cmd.price # reply.cmd.price

\* the table as it would be had the ids of S never been created
NeverCreated(t, S) ==
  LET Keep(row) == row.id \notin S
  IN SelectSeq(t, Keep)

\* what a request gets when the id it names was never created
AbsentOutcome(t, cmd) ==
  IF cmd.op = "FindOne"
  THEN (IF FindById(NeverCreated(t, {cmd.id}), cmd.id, FALSE) = <<>>
        THEN NotFoundOrNotAvailable ELSE Ok(<<>>, NoMeta))
  ELSE IF cmd.op = "Update"
  THEN (IF ~UpdateDtoValid(cmd.name, cmd.price) THEN PipeRejects
        ELSE IF FindById(NeverCreated(t, {cmd.id}), cmd.id, FALSE) = <<>>
        THEN NotFoundOrNotAvailable ELSE Ok(<<>>, NoMeta))
  ELSE IF cmd.op = "Delete"
  THEN (IF FindById(NeverCreated(t, {cmd.id}), cmd.id, FALSE) = <<>>
        THEN NotFoundOrAlreadyUnavailable ELSE Ok(<<>>, NoMeta))
  ELSE ValidateProducts(NeverCreated(t, StoredIds(t) \ AvailableIds(t)), cmd.ids, FALSE).res

\* C23: a find_one_product, update_product or delete_product whose response
\* is produced while the row of its id is soft-deleted, and a validate_products
\* over a table with soft-deleted rows, end exactly (status, message, data) as
\* they do when those ids were never created, storage failures aside; this
\* includes the requests whose row is soft-deleted by another request between
\* their findById and their write.
C23_UnavailableAsAbsent ==
  [][(/\ Responded
      /\ reply'.dberr = "none"
      /\ \/ /\ reply'.cmd.op \in {"FindOne", "Update", "Delete"}
            /\ HasRow(table, reply'.cmd.id)
            /\ ~IsAvailable(table, reply'.cmd.id)
         \/ reply'.cmd.op = "ValidateBatch")
       => reply'.res = AbsentOutcome(table, reply'.cmd)]_vars

\* the handler whose execute each action of the model carries out
ExecutedHandler(op) ==
  IF op = "Create" THEN "CreateProductHandler"
  ELSE IF op = "FindAll" THEN "FindAllProductsHandler"
  ELSE IF op = "FindOne" THEN "FindOneProductHandler"
  ELSE IF op = "Update" THEN "UpdateProductHandler"
  ELSE IF op = "Delete" THEN "DeleteProductHandler"
  ELSE "ValidateProductsHandler"

C25_DefaultsAreOneAndTen ==
  (/\ reply.cmd.op = "FindAll"
   /\ reply.dberr = "none"
   /\ reply.res # PipeRejects
   /\ (reply.cmd.page = {} \/ reply.cmd.limit = {})) =>
    LET page == IF reply.cmd.page = {} THEN {1} ELSE reply.cmd.page
        limit == IF reply.cmd.limit = {} THEN {10} ELSE reply.cmd.limit
    IN /\ reply.res = RepoFindAllAvailablePaginated(table, table, page, limit, FALSE).res
       /\ reply.res.ok
       /\ reply.cmd.page = {} => reply.res.meta.page = 1
       /\ reply.cmd.limit = {} =>
            Len(reply.res.data) = Min2(10, Max2(0, reply.res.meta.total
                                               - (reply.res.meta.page - 1) * 10))

\* C25 witness: a find_all_products with neither page nor limit has just
\* returned both available products as page 1 of 1.
C25_Witness ==
  /\ reply.cmd.op = "FindAll"
  /\ reply.cmd.page = {}
  /\ reply.cmd.limit = {}
  /\ reply.res.ok
  /\ Len(reply.res.data) = 2
  /\ reply.res.meta = [total |-> 2, page |-> 1, lastPage |-> 1]

\* C26: the repository update of an update_product that supplies no field
\* writes nothing; it returns the row as stored when the row is available, and
\* when the row is no longer available it fails with an RpcException of status
\* 404 (storage failures aside).
C26_EmptyUpdate ==
  [][(/\ Responded
      /\ reply'.cmd.op = "Update"
      /\ pending' # pending
      /\ reply'.cmd.name = {}
      /\ reply'.cmd.price = {}
      /\ reply'.dberr = "none") =>
       /\ table' = table
       /\ IF IsAvailable(table, reply'.cmd.id)
          THEN reply'.res = Ok(<<RowOf(table, reply'.cmd.id)>>, NoMeta)
          ELSE IsNotFound(reply'.res)]_vars

\* C27: a Product.updateDetails that throws (a supplied name that trims to
\* empty, or a supplied price below 0) leaves the entity as it was, also when
\* a valid name comes with a negative price.
C27_UpdateDetailsAtomic ==
  [][(reply'.cmd.op = "updateDetails" /\ ~reply'.res.ok) => table' = table]_vars

\* C28: Product.markAsUnavailable returns on every entity, available or not;
\* it leaves available = false and id, name and price as they were, and
\* calling it again changes nothing more.
C28_MarkAsUnavailableIdempotent ==
  [][reply'.cmd.op = "markAsUnavailable" =>
       /\ reply'.res.ok
       /\ ~table'[1].available
       /\ table'[1] = [table[1] EXCEPT !.available = FALSE]
       /\ MarkAsUnavailable(table'[1]) = table'[1]
       /\ ~table[1].available => table' = table]_vars

\* C28 witness: markAsUnavailable has just been called on an entity that was
\* already unavailable, and the entity is unavailable.
C28_Witness ==
  /\ reply.cmd.op = "markAsUnavailable"
  /\ ~reply.sawAvailable
  /\ reply.res.ok
  /\ ~table[1].available

\* the failures a handler throws after its first repository call, findById
FirstCallFailures == {PipeRejects, NotFoundOrNotAvailable, NotFoundOrAlreadyUnavailable}

\* the handler of cmd has run to its end after its second repository call
Completed(cmd) == reply.cmd = cmd /\ reply.res \notin FirstCallFailures

\* C29: when every storage call returns, every request completes with a result
\* or a failure: a handler suspended at its second repository call is resumed
\* and answers, every answer is handed over, and the step that resumes a
\* handler ends it: a handler makes at most two repository calls and is never
\* put back to wait.
C29_EveryRequestCompletes ==
  /\ \A cmd \in LiveCmds :
       (\E h \in BagToSet(pending) : h.cmd = cmd) ~> Completed(cmd)
  /\ (reply # NoReply) ~> (reply = NoReply)
  /\ [][/\ BagCardinality(pending') < BagCardinality(pending) => reply' # NoReply
        /\ BagCardinality(pending') > BagCardinality(pending) => reply' = NoReply
        /\ \A h \in BagToSet(pending') : h.pc \in {"update", "softDelete"}]_vars

\* C29 witness: a delete_product that was suspended at softDelete while an
\* update_product of the same product is still waiting has just returned the
\* product.
C29_Witness ==
  /\ reply.cmd.op = "Delete"
  /\ reply.res.ok
  /\ \E h \in BagToSet(pending) : h.pc = "update" /\ h.cmd.id = reply.cmd.id

Queries == {"FindOne", "FindAll", "ValidateBatch"}

\* C30: find_one_product, find_all_products and validate_products, whether they
\* answer with a result or with a failure, leave every stored product and the
\* set of stored products as they were.
C30_QueriesAreReadOnly ==
  [][(Responded /\ reply'.cmd.op \in Queries) => table' = table]_vars

\* A query has answered with a result, or has failed on its storage call, while
\* products are stored and one of them is available.
C30_Witness ==
  /\ reply # NoReply
  /\ reply.cmd.op \in Queries
  /\ reply.res.ok \/ reply.dberr # "none"
  /\ \E i \in 1..Len(table) : table[i].available

====
